---- MODULE Spec2Model ----
(***************************************************************************)
(* badger-board: a host script (badge_co2.py) renders sensor readings into *)
(* a 1-bit bitmap and writes it as an `IMG:<base64>\n` line to a serial    *)
(* link; the badge script (badge_main.py) reads the link one character at  *)
(* a time, decodes completed lines and paints the e-paper panel.           *)
(*                                                                         *)
(* Text is modelled as sequences of one-character strings, bytes as the    *)
(* integers 0..255, the canvas as the flattened pixel list the packer      *)
(* reads, the badge's frame buffer as a function of (x, y).                *)
(***************************************************************************)
EXTENDS Integers, Sequences, FiniteSets, TLC

VARIABLES
    \* ---- geometry shared by both ends (296 x 128 in the program) ----
    width, height,
    \* ---- badge (badge_main.py) ----
    pen, font, speed,       \* state of the badger2040 display object
    fb, fbText,             \* frame buffer: pixels and text drawn since the last clear
    panel,                  \* what the e-paper shows: the frame buffer at the last update()
    update_count,           \* global update_count
    buffer,                 \* global buffer
    wire,                   \* characters on the link not yet read by the badge
    lastOps,                \* display calls issued while handling the last completed line
    printed,                \* lines print()ed while handling the last completed line
    lineIn,                 \* the characters read since the previous newline
    sent,                   \* the kinds of the last two lines the environment put on the wire
    paints,                 \* number of display_image calls so far
    \* ---- host (badge_co2.py) ----
    pixels,                 \* the canvas (img), flattened row-major, 0 = black, 1 = white
    byte_data,              \* result of image_to_badge_bytes
    tpc,                    \* position of the host script
    ser,                    \* state of the serial port object
    link,                   \* every character the host wrote to the port, in order
    flushedUpTo,            \* length of link at the last flush()
    sensor_data,            \* the snapshot of the current tick
    ticks,                  \* ticks started
    tickLog,                \* per call of send_image_to_badge: its image, what it wrote
    exitStatus,             \* process exit status, -1 while running
    \* ---- pure functions under test ----
    value, thresholds, fmt, suffix,   \* inputs of get_warning_level / format_value
    level, formatted,                 \* their results ("unset" before the call)
    cols, rows,                       \* grid geometry
    cell, cellBefore,                 \* the cell drawn last and the canvas before it
    drawLog,                          \* paste / text calls issued by the last render
    icon_cache                        \* global _icon_cache, as its set of keys

rxVars == <<pen, font, speed, fb, fbText, panel, update_count, buffer, wire,
            lastOps, printed, lineIn, sent, paints>>
txVars == <<tpc, ser, link, flushedUpTo, sensor_data, ticks, tickLog, exitStatus>>
packVars == <<pixels, byte_data>>
valueVars == <<value, thresholds, fmt, suffix, level, formatted>>
cellVars == <<cols, rows, cell, cellBefore, drawLog, icon_cache>>
geomVars == <<width, height>>
vars == <<geomVars, rxVars, txVars, packVars, valueVars, cellVars>>

----------------------------------------------------------------------------
(* Bounds of the model *)

MaxW == 10          \* largest canvas width explored by the packing check
MaxH == 2           \* largest canvas height explored by the packing check
MaxInk == 2         \* most black pixels on a canvas of the packing check
RxW == 3            \* panel width of the receiver checks
RxH == 4            \* panel height of the receiver checks
RxInkBits == 1      \* frames on the wire have their black pixels among the first RxInkBits
MaxRxPaints == 2    \* paints per behaviour of the receiver checks
MaxValLen == 3      \* longest generated sensor value
MaxThreshold == 2   \* largest generated threshold
MaxCellW == 5       \* largest canvas width of the cell drawing check
MaxCellH == 3       \* largest canvas height of the cell drawing check
MaxGrid == 2        \* most columns and most rows of the cell drawing check
MaxDraws == 2       \* cells drawn per behaviour of the cell drawing check
TxW == 4            \* canvas width of the host check
TxH == 4            \* canvas height of the host check
MaxTicks == 2       \* ticks per behaviour of the host check

----------------------------------------------------------------------------
(* Helpers *)

Min(a, b) == IF a < b THEN a ELSE b
Max(a, b) == IF a > b THEN a ELSE b

Pow2(n) == 2 ^ n

\* ceil(a / 8): the number of x values in range(0, a, 8)
Groups(a) == (a + 7) \div 8

Whitespace == {" ", "\t", "\r", "\n"}

\* str.strip()
RECURSIVE LStrip(_)
LStrip(s) == IF s # <<>> /\ Head(s) \in Whitespace THEN LStrip(Tail(s)) ELSE s
RECURSIVE RStrip(_)
RStrip(s) ==
    IF s # <<>> /\ s[Len(s)] \in Whitespace THEN RStrip(SubSeq(s, 1, Len(s) - 1)) ELSE s
Strip(s) == RStrip(LStrip(s))

RECURSIVE SeqsUpTo(_, _)
SeqsUpTo(S, n) ==
    IF n = 0 THEN {<<>>}
    ELSE LET shorter == SeqsUpTo(S, n - 1)
         IN  shorter \cup {Append(s, c) : s \in {t \in shorter : Len(t) = n - 1}, c \in S}

----------------------------------------------------------------------------
(* base64, as the standard library does it *)

B64Alphabet ==
    << "A","B","C","D","E","F","G","H","I","J","K","L","M","N","O","P",
       "Q","R","S","T","U","V","W","X","Y","Z","a","b","c","d","e","f",
       "g","h","i","j","k","l","m","n","o","p","q","r","s","t","u","v",
       "w","x","y","z","0","1","2","3","4","5","6","7","8","9","+","/" >>

B64Chars == {B64Alphabet[i] : i \in 1..64}

B64Index == [c \in B64Chars |-> (CHOOSE i \in 1..64 : B64Alphabet[i] = c) - 1]

\* the value of a character, -1 when it is not in the alphabet
Sextet(c) == IF c \in B64Chars THEN B64Index[c] ELSE -1

ByteAt(bs, i) == IF i <= Len(bs) THEN bs[i] ELSE 0

\* base64.b64encode(img_bytes).decode("ascii")
b64encode(bs) ==
    LET n == Len(bs)
        outLen == 4 * ((n + 2) \div 3)
        Ch(j) ==
            LET g == j \div 4
                k == j % 4
                have == Min(3, n - 3 * g)
                triple == ByteAt(bs, 3*g + 1) * 65536 + ByteAt(bs, 3*g + 2) * 256
                          + ByteAt(bs, 3*g + 3)
            IN  IF k > have THEN "="
                ELSE B64Alphabet[((triple \div (64 ^ (3 - k))) % 64) + 1]
    IN  [j \in 1..outLen |-> Ch(j - 1)]

\* binascii.a2b_base64 on the badge: one pass over the characters, characters
\* outside the alphabet skipped, a byte emitted as soon as 8 bits are there,
\* ValueError("incorrect padding") when bits are left over at the end.
\* Only the low 12 bits of shift are ever read, so it is kept to that width.
RECURSIVE a2bLoop(_, _, _, _, _, _)
a2bLoop(s, i, shift, nbits, hit_pad, out) ==
    IF i > Len(s) THEN [bits |-> nbits, bytes |-> out]
    ELSE LET c == s[i]
             stop == c = "=" /\ (nbits = 2 \/ (nbits = 4 /\ hit_pad))
             sx == Sextet(c)
         IN  IF stop THEN [bits |-> 0, bytes |-> out]
             ELSE IF sx = -1
                  THEN a2bLoop(s, i + 1, shift, nbits, hit_pad \/ c = "=", out)
                  ELSE LET sh == (shift % 4096) * 64 + sx
                           nb == nbits + 6
                       IN  IF nb >= 8
                           THEN a2bLoop(s, i + 1, sh, nb - 8, FALSE,
                                        Append(out, (sh \div Pow2(nb - 8)) % 256))
                           ELSE a2bLoop(s, i + 1, sh, nb, FALSE, out)

\* [ok |-> FALSE] stands for the exception
a2b_base64(s) ==
    LET r == a2bLoop(s, 1, 0, 0, FALSE, <<>>)
    IN  IF r.bits # 0 THEN [ok |-> FALSE, bytes |-> <<>>]
        ELSE [ok |-> TRUE, bytes |-> r.bytes]

----------------------------------------------------------------------------
(* The bitmap packer (host) *)

image_to_badge_bytesLsbFirst(px, w, h) ==
    LET Byte(y, g) ==
            LET Bit(bit) ==
                    LET p == 8 * g + bit
                    IN  IF p < w /\ px[y * w + p + 1] # 0 THEN Pow2(bit) ELSE 0
            IN  Bit(0) + Bit(1) + Bit(2) + Bit(3) + Bit(4) + Bit(5) + Bit(6) + Bit(7)
        perRow == Groups(w)
    IN  [i \in 1..(h * perRow) |-> Byte((i - 1) \div perRow, (i - 1) % perRow)]

\* image_to_badge_bytes(img): one byte per group of 8 columns, row by row,
\* bit 7 - bit set when the pixel is truthy (white), columns past the width 0
image_to_badge_bytes(px, w, h) ==
    LET Byte(y, g) ==
            LET Bit(bit) ==
                    LET p == 8 * g + bit
                    IN  IF p < w /\ px[y * w + p + 1] # 0 THEN Pow2(7 - bit) ELSE 0
            IN  Bit(0) + Bit(1) + Bit(2) + Bit(3) + Bit(4) + Bit(5) + Bit(6) + Bit(7)
        perRow == Groups(w)
    IN  [i \in 1..(h * perRow) |-> Byte((i - 1) \div perRow, (i - 1) % perRow)]

\* the subsets of 1..n with at most k elements
RECURSIVE InkSets(_, _)
InkSets(n, k) ==
    IF k = 0 THEN {{}}
    ELSE LET fewer == InkSets(n, k - 1)
         IN  fewer \cup {S \cup {i} : S \in fewer, i \in 1..n}

\* the canvases with at most n black pixels
CanvasesWithInk(w, h, n) ==
    { [i \in 1..(w * h) |-> IF i \in S THEN 0 ELSE 1] : S \in InkSets(w * h, n) }

----------------------------------------------------------------------------
(* Threshold evaluation and value formatting (host) *)

DigitChars == <<"0", "1", "2", "3", "4", "5", "6", "7", "8", "9">>
DigitSet == {DigitChars[i] : i \in 1..10}
DigitVal == [c \in DigitSet |-> (CHOOSE i \in 1..10 : DigitChars[i] = c) - 1]

IsDigits(s) == \A i \in DOMAIN s : s[i] \in DigitSet

RECURSIVE ToNat(_)
ToNat(s) == IF s = <<>> THEN 0 ELSE 10 * ToNat(SubSeq(s, 1, Len(s) - 1)) + DigitVal[s[Len(s)]]

\* str(n) of a natural number
RECURSIVE IntText(_)
IntText(n) == IF n < 10 THEN <<DigitChars[n + 1]>>
              ELSE Append(IntText(n \div 10), DigitChars[(n % 10) + 1])

NoFloat == [kind |-> "fail", neg |-> FALSE, m |-> 0, s |-> 0]

\* float(value) of a string: surrounding whitespace dropped, an optional sign,
\* then inf / infinity / nan, or digits with at most one point and at least one
\* digit; anything else is ValueError (kind "fail").  A number is kept exactly,
\* as m / 10^s with its sign apart (float keeps the sign of zero).  Exponents
\* and underscores are not part of the input alphabet explored here.
ParseFloat(v) ==
    LET t == Strip(v)
        signed == t # <<>> /\ t[1] \in {"+", "-"}
        neg == signed /\ t[1] = "-"
        body == IF signed THEN Tail(t) ELSE t
        dots == {i \in DOMAIN body : body[i] = "."}
        dot == IF dots = {} THEN Len(body) + 1 ELSE CHOOSE i \in dots : TRUE
        ip == SubSeq(body, 1, dot - 1)
        fp == SubSeq(body, dot + 1, Len(body))
    IN  IF body \in {<<"i", "n", "f">>, <<"i", "n", "f", "i", "n", "i", "t", "y">>}
        THEN [kind |-> "inf", neg |-> neg, m |-> 0, s |-> 0]
        ELSE IF body = <<"n", "a", "n">>
        THEN [kind |-> "nan", neg |-> neg, m |-> 0, s |-> 0]
        ELSE IF Cardinality(dots) <= 1 /\ IsDigits(ip) /\ IsDigits(fp)
                /\ Len(ip) + Len(fp) >= 1
        THEN [kind |-> "num", neg |-> neg, m |-> ToNat(ip \o fp), s |-> Len(fp)]
        ELSE NoFloat

GeStrict(val, t) ==
    CASE val.kind = "num" -> (IF val.neg THEN 0 - val.m ELSE val.m) > t * (10 ^ val.s)
      [] val.kind = "inf" -> ~val.neg
      [] OTHER -> FALSE

\* val >= t for a float val and an integer t (false for nan)
Ge(val, t) ==
    CASE val.kind = "num" -> (IF val.neg THEN 0 - val.m ELSE val.m) >= t * (10 ^ val.s)
      [] val.kind = "inf" -> ~val.neg
      [] OTHER -> FALSE

\* get_warning_level(value, thresholds): thresholds is <<>> for None
get_warning_level(v, th) ==
    IF th = <<>> THEN 0
    ELSE LET val == ParseFloat(v)
         IN  IF val.kind = "fail" THEN 0
             ELSE IF Ge(val, th[2]) THEN 2
             ELSE IF Ge(val, th[1]) THEN 1
             ELSE 0

Sign(val) == IF val.neg THEN <<"-">> ELSE <<>>

\* m / 10^s rounded to the nearest integer, ties to even
RoundHalfEven(m, s) ==
    LET base == 10 ^ s
        q == m \div base
        r == m % base
    IN  IF 2 * r > base \/ (2 * r = base /\ q % 2 = 1) THEN q + 1 ELSE q

\* f"{int(val)}": int() truncates towards zero; it raises OverflowError for an
\* infinity and ValueError for nan
IntFormat(val) ==
    CASE val.kind = "inf" -> [raised |-> "OverflowError", text |-> <<>>]
      [] val.kind = "nan" -> [raised |-> "ValueError", text |-> <<>>]
      [] OTHER ->
           LET q == val.m \div (10 ^ val.s)
           IN  [raised |-> "no", text |-> (IF val.neg /\ q > 0 THEN <<"-">> ELSE <<>>) \o IntText(q)]

\* f"{val:.0f}"
Fixed0(val) ==
    CASE val.kind = "inf" -> Sign(val) \o <<"i", "n", "f">>
      [] val.kind = "nan" -> <<"n", "a", "n">>
      [] OTHER -> Sign(val) \o IntText(RoundHalfEven(val.m, val.s))

\* f"{val:.1f}".  A tie in the second decimal that binary floating point cannot
\* hold exactly (x.y5 other than .25 and .75) is rounded by the float's error in
\* the program; the generated values contain no such tie.
Fixed1(val) ==
    CASE val.kind = "inf" -> Sign(val) \o <<"i", "n", "f">>
      [] val.kind = "nan" -> <<"n", "a", "n">>
      [] OTHER ->
           LET tenths == IF val.s = 0 THEN 10 * val.m
                         ELSE RoundHalfEven(val.m, val.s - 1)
           IN  Sign(val) \o IntText(tenths \div 10) \o <<".", DigitChars[(tenths % 10) + 1]>>

\* format_value(value, fmt, suffix) for the format kinds the cells use; the
\* result says which exception, if any, leaves the function
format_value(v, f, suf) ==
    IF f = "raw" THEN [raised |-> "no", text |-> v \o suf]
    ELSE LET val == ParseFloat(v)
         IN  IF val.kind = "fail" THEN [raised |-> "no", text |-> v \o suf]
             ELSE IF f = "int"
                  THEN LET r == IntFormat(val)
                       IN  IF r.raised = "no" THEN [raised |-> "no", text |-> r.text \o suf]
                           ELSE IF r.raised = "ValueError"
                           THEN [raised |-> "no", text |-> v \o suf]
                           ELSE r
             ELSE IF f = "0f" THEN [raised |-> "no", text |-> Fixed0(val) \o suf]
             ELSE [raised |-> "no", text |-> Fixed1(val) \o suf]

----------------------------------------------------------------------------
(* The grid layout engine (host) *)

GridCols == 2
GridRows == 4
IconSize == 24
DEBUG_BORDERS == FALSE

GRID_CONFIG ==
    << [row |-> 0, col |-> 0, sensor |-> "co2", icon |-> "seedlings.png",
        format |-> "int", suffix |-> <<>>, thresholds |-> <<1000, 2000>>],
       [row |-> 0, col |-> 1, sensor |-> "co", icon |-> "fire.png",
        format |-> "1f", suffix |-> <<>>, thresholds |-> <<10, 35>>],
       [row |-> 1, col |-> 0, sensor |-> "pm25", icon |-> "sparkles.png",
        format |-> "1f", suffix |-> <<>>, thresholds |-> <<12, 35>>],
       [row |-> 1, col |-> 1, sensor |-> "humidity", icon |-> "cloud-download.png",
        format |-> "0f", suffix |-> <<"%">>, thresholds |-> <<>>],
       [row |-> 2, col |-> 0, sensor |-> "outside_temp", icon |-> "sun.png",
        format |-> "1f", suffix |-> <<"°", "C">>, thresholds |-> <<>>],
       [row |-> 2, col |-> 1, sensor |-> "temperature", icon |-> "home.png",
        format |-> "1f", suffix |-> <<"°", "C">>, thresholds |-> <<>>],
       [row |-> 3, col |-> 0, sensor |-> "time", icon |-> "clock.png",
        format |-> "raw", suffix |-> <<>>, thresholds |-> <<>>],
       [row |-> 3, col |-> 1, sensor |-> "date", icon |-> "calender.png",
        format |-> "raw", suffix |-> <<>>, thresholds |-> <<>>] >>

\* ImageDraw.rectangle([x0, y0, x1, y1], fill=0): Pillow's bounding box includes
\* both corner points; what lies outside the image is clipped
FillRect(img, w, h, x0, y0, x1, y1) ==
    [i \in 1..(w * h) |->
        LET x == (i - 1) % w
            y == (i - 1) \div w
        IN  IF x0 <= x /\ x <= x1 /\ y0 <= y /\ y <= y1 THEN 0 ELSE img[i]]

\* ImageDraw.rectangle([x0, y0, x1, y1], outline=0, width=k): the k outermost
\* rings of the same box
OutlineRect(img, w, h, x0, y0, x1, y1, k) ==
    [i \in 1..(w * h) |->
        LET x == (i - 1) % w
            y == (i - 1) \div w
        IN  IF /\ x0 <= x /\ x <= x1 /\ y0 <= y /\ y <= y1
               /\ (x - x0 < k \/ x1 - x < k \/ y - y0 < k \/ y1 - y < k)
            THEN 0 ELSE img[i]]

\* the rectangle draw_cell fills for a cell in danger
DangerFillExclusive(img, w, h, x, y, cw, ch) ==
    FillRect(img, w, h, x, y, x + cw - 1, y + ch - 1)

DangerFill(img, w, h, x, y, cw, ch) ==
    FillRect(img, w, h, x, y, x + cw, y + ch)

\* load_icon(icon_name, size, invert): from the cache, or from the asset
\* directory when it can be read (and then cached); None otherwise
load_icon(icon_name, size, invert, cache, assetsOk) ==
    LET cache_key == <<icon_name, size, invert>>
    IN  IF cache_key \in cache THEN [found |-> TRUE, cache |-> cache]
        ELSE IF assetsOk THEN [found |-> TRUE, cache |-> cache \cup {cache_key}]
        ELSE [found |-> FALSE, cache |-> cache]

\* sensor_data.get(sensor_key, "---")
SensorGet(sd, key) == IF key \in DOMAIN sd THEN sd[key] ELSE <<"-", "-", "-">>

\* the part of draw_cell after the warning level and the formatted value are
\* known: the fill or the border, then the icon and the text
DrawCellBody(img, w, h, cell_config, cell_width, cell_height, text_font, cache, assetsOk, warning_level, fv) ==
    LET x == cell_config.col * cell_width
        y == cell_config.row * cell_height
        invert == warning_level = 2
        fg_color == IF warning_level = 2 THEN 1 ELSE 0
        filled == IF warning_level = 2
                  THEN DangerFill(img, w, h, x, y, cell_width, cell_height)
                  ELSE img
        warned == IF warning_level = 1
                  THEN OutlineRect(filled, w, h, x, y, x + cell_width - 1, y + cell_height - 1, 2)
                  ELSE filled
        icon == IF cell_config.icon # ""
                THEN load_icon(cell_config.icon, IconSize, warning_level = 2, cache, assetsOk)
                ELSE [found |-> FALSE, cache |-> cache]
        icon_y_offset == 0
        pasteCall == IF icon.found
                     THEN << [op |-> "paste", what |-> cell_config.icon,
                              inverted |-> warning_level = 2,
                              x |-> x + 4,
                              y |-> y + ((cell_height - IconSize) \div 2) + icon_y_offset,
                              font |-> "", fill |-> 0] >>
                     ELSE <<>>
        textCall == << [op |-> "text", what |-> fv.text, inverted |-> warning_level = 2,
                        x |-> x + IconSize + 12, y |-> y, font |-> text_font,
                        fill |-> IF warning_level = 2 THEN 1 ELSE 0] >>
    IN  IF fv.raised # "no"
        THEN [raised |-> fv.raised, img |-> warned, calls |-> <<>>, cache |-> cache,
              level |-> warning_level]
        ELSE [raised |-> "no", img |-> warned, calls |-> pasteCall \o textCall,
              cache |-> icon.cache, level |-> warning_level]

\* draw_cell: the canvas after the cell's rectangles, the paste and text calls
\* it issues (glyph pixels come from the font and icon files, which are not
\* part of the program), the icon cache, and the exception that leaves it.
\* The warning level and the formatted value are computed once, as in the code.
draw_cell(img, w, h, cell_config, sd, cell_width, cell_height, text_font, cache, assetsOk) ==
    LET bordered == IF DEBUG_BORDERS
                    THEN OutlineRect(img, w, h, cell_config.col * cell_width,
                                     cell_config.row * cell_height,
                                     cell_config.col * cell_width + cell_width - 1,
                                     cell_config.row * cell_height + cell_height - 1, 1)
                    ELSE img
    IN  IF cell_config.sensor = ""
        THEN [raised |-> "no", img |-> bordered, calls |-> <<>>, cache |-> cache,
              level |-> 0]
        ELSE CHOOSE res \in
                { DrawCellBody(bordered, w, h, cell_config, cell_width, cell_height,
                               text_font, cache, assetsOk, warning_level, fv) :
                    warning_level \in {get_warning_level(SensorGet(sd, cell_config.sensor),
                                                         cell_config.thresholds)},
                    fv \in {format_value(SensorGet(sd, cell_config.sensor),
                                         cell_config.format, cell_config.suffix)} } : TRUE

\* one pass of the loop of generate_display_image: cell i drawn onto the canvas
\* of acc, unless an earlier cell raised
DrawNext(acc, i, w, h, sd, cw, ch, text_font, assetsOk) ==
    LET r == draw_cell(acc.img, w, h, GRID_CONFIG[i], sd, cw, ch, text_font, acc.cache,
                       assetsOk)
    IN  [raised |-> r.raised, img |-> r.img, calls |-> acc.calls \o r.calls,
         cache |-> r.cache]

\* the loop of generate_display_image over GRID_CONFIG, from cell i on
RECURSIVE DrawCells(_, _, _, _, _, _, _, _, _)
DrawCells(i, acc, w, h, sd, cw, ch, text_font, assetsOk) ==
    IF i > Len(GRID_CONFIG) \/ acc.raised # "no" THEN acc
    ELSE CHOOSE res \in { DrawCells(i + 1, nxt, w, h, sd, cw, ch, text_font, assetsOk) :
                            nxt \in {DrawNext(acc, i, w, h, sd, cw, ch, text_font, assetsOk)} } :
            TRUE

\* generate_display_image(sensor_data): a white canvas, the font (the default
\* one when the file cannot be read), the cell size by truncating division,
\* then every cell of GRID_CONFIG
generate_display_image(sd, w, h, nc, nr, cache, fontOk, assetsOk) ==
    LET blank == [i \in 1..(w * h) |-> 1]
        text_font == IF fontOk THEN "Minecraftia-12.ttf" ELSE "default"
        cell_width == w \div nc
        cell_height == h \div nr
    IN  DrawCells(1, [raised |-> "no", img |-> blank, calls |-> <<>>, cache |-> cache],
                  w, h, sd, cell_width, cell_height, text_font, assetsOk)

----------------------------------------------------------------------------
(* The badge: badge_main.py *)

FULL_REFRESH_INTERVAL == 60

TagIMG == <<"I", "M", "G", ":">>
TagCO2 == <<"C", "O", "2", ":">>

\* str.startswith
StartsWith(s, tag) == Len(s) >= Len(tag) /\ SubSeq(s, 1, Len(tag)) = tag

\* line.split(":")[1] of a line that contains a colon
RECURSIVE UpToColon(_)
UpToColon(s) == IF s = <<>> \/ Head(s) = ":" THEN <<>> ELSE <<Head(s)>> \o UpToColon(Tail(s))
SplitField1(line) == UpToColon(SubSeq(line, Len(UpToColon(line)) + 2, Len(line)))

PanelPixels == (0..(width - 1)) \X (0..(height - 1))

\* display.set_pen(15); display.clear()
Cleared == [p \in PanelPixels |-> 15]

\* the pixel loop of display_image: byte_idx advances once per group of 8
\* columns whether or not a byte is left; a clear bit paints the pixel black
PaintedBitSet(img_bytes) ==
    [p \in PanelPixels |->
        LET byte_idx == p[2] * Groups(width) + (p[1] \div 8)
            bit == p[1] % 8
        IN  IF byte_idx < Len(img_bytes)
               /\ (img_bytes[byte_idx + 1] \div Pow2(7 - bit)) % 2 = 1
            THEN 0 ELSE 15]

Painted(img_bytes) ==
    [p \in PanelPixels |->
        LET byte_idx == p[2] * Groups(width) + (p[1] \div 8)
            bit == p[1] % 8
        IN  IF byte_idx < Len(img_bytes)
               /\ (img_bytes[byte_idx + 1] \div Pow2(7 - bit)) % 2 = 0
            THEN 0 ELSE 15]

RefreshDueOffByOne(count) == count > FULL_REFRESH_INTERVAL

\* if update_count >= FULL_REFRESH_INTERVAL
RefreshDue(count) == count >= FULL_REFRESH_INTERVAL

\* display.update() at the given speed
UpdateOp(spd) == IF spd = "NORMAL" THEN "update NORMAL" ELSE "update FAST"

display_image(img_bytes) ==
    /\ pen' = 0
    /\ fb' = Painted(img_bytes)
    /\ fbText' = <<>>
    /\ panel' = [px |-> fb', text |-> fbText']
    /\ paints' = paints + 1
    /\ IF RefreshDue(update_count + 1)
       THEN /\ lastOps' = <<"clear", UpdateOp("NORMAL")>>
            /\ speed' = "FAST"
            /\ update_count' = 0
       ELSE /\ lastOps' = <<"clear", UpdateOp(speed)>>
            /\ speed' = speed
            /\ update_count' = update_count + 1
    /\ font' = font

\* show_waiting_screen(), run once before the loop
WaitingText == <<[s |-> "Waiting for data...", x |-> 10, y |-> 55, scale |-> 2]>>

ImageBranchPaintsOnError(line) ==
    LET r == a2b_base64(SubSeq(line, 5, Len(line)))
    IN  IF r.ok
        THEN /\ display_image(r.bytes)
             /\ printed' = <<"Image displayed">>
        ELSE /\ display_image(<<>>)
             /\ printed' = <<"Error: incorrect padding">>

\* the IMG: branch of the main loop
ImageBranch(line) ==
    LET r == a2b_base64(SubSeq(line, 5, Len(line)))
    IN  IF r.ok
        THEN /\ display_image(r.bytes)
             /\ printed' = <<"Image displayed">>
        ELSE /\ printed' = <<"Error: incorrect padding">>
             /\ lastOps' = <<>>
             /\ UNCHANGED <<pen, font, speed, fb, fbText, panel, update_count, paints>>

\* the CO2: branch of the main loop
LegacyBranch(line) ==
    /\ pen' = 0
    /\ font' = "bitmap8"
    /\ fb' = Cleared
    /\ fbText' = << [s |-> "Room CO2 Level", x |-> 10, y |-> 10, scale |-> 2],
                    [s |-> SplitField1(line), x |-> 30, y |-> 50, scale |-> 4],
                    [s |-> "ppm", x |-> 30, y |-> 90, scale |-> 2] >>
    /\ panel' = [px |-> fb', text |-> fbText']
    /\ lastOps' = <<"clear", UpdateOp(speed)>>
    /\ printed' = <<>>
    /\ UNCHANGED <<speed, update_count, paints>>

NextBufferKept(char) == IF char = "\n" THEN buffer ELSE Append(buffer, char)

\* buffer = "" on a newline, buffer += char otherwise
NextBuffer(char) == IF char = "\n" THEN <<>> ELSE Append(buffer, char)

\* one iteration of `while True` in which select() reports stdin readable
MainLoop ==
    /\ wire # <<>>
    /\ LET char == Head(wire)
           line == Strip(buffer)
       IN  /\ wire' = Tail(wire)
           /\ buffer' = NextBuffer(char)
           /\ lineIn' = IF char = "\n" THEN <<>> ELSE Append(lineIn, char)
           /\ IF char = "\n"
              THEN IF StartsWith(line, TagIMG) THEN ImageBranch(line)
                   ELSE IF StartsWith(line, TagCO2) THEN LegacyBranch(line)
                   ELSE /\ lastOps' = <<>>
                        /\ printed' = <<>>
                        /\ UNCHANGED <<pen, font, speed, fb, fbText, panel,
                                       update_count, paints>>
              ELSE UNCHANGED <<pen, font, speed, fb, fbText, panel, update_count,
                               paints, lastOps, printed>>
    /\ UNCHANGED <<sent, geomVars, txVars, packVars, valueVars, cellVars>>

----------------------------------------------------------------------------
(* The link towards the badge: the lines a host, or a damaged transmission *)
(* of a host's line, can put in front of the receiver                       *)

\* canvases whose black pixels lie among the first RxInkBits pixels
RxCanvases ==
    { [i \in 1..(width * height) |-> IF i \in S THEN 0 ELSE 1] :
        S \in SUBSET (1..Min(RxInkBits, width * height)) }

\* the all-white canvas and the canvas with its first pixel black
RefreshCanvases ==
    { [i \in 1..(width * height) |-> IF i \in S THEN 0 ELSE 1] : S \in {{}, {1}} }

CorruptChars == {"A", "/", "=", "!"}
LegacyValues == {<<"4", "2", "0">>, <<"E", "R", "R">>}
UnknownLines == {<<>>, <<"I", "M", "G">>, <<"T", "M", "P", ":", "1">>}
Fragments == {<<"I", "M">>}

SendFrame(canvases, limit) ==
    /\ wire = <<>>
    /\ paints < limit
    /\ \E px \in canvases :
          /\ wire' = TagIMG \o b64encode(image_to_badge_bytes(px, width, height)) \o <<"\n">>
          /\ sent' = [kind |-> "valid", prev |-> sent.kind]
    /\ UNCHANGED <<pen, font, speed, fb, fbText, panel, update_count, buffer,
                   lastOps, printed, lineIn, paints>>
    /\ UNCHANGED <<geomVars, txVars, packVars, valueVars, cellVars>>

\* the payload cut short at any point before its end
SendTruncated(canvases, limit) ==
    /\ wire = <<>>
    /\ paints < limit
    /\ \E px \in canvases :
          LET payload == b64encode(image_to_badge_bytes(px, width, height))
          IN  \E cut \in 0..(Len(payload) - 1) :
                 /\ wire' = TagIMG \o SubSeq(payload, 1, cut) \o <<"\n">>
                 /\ sent' = [kind |-> "truncated", prev |-> sent.kind]
    /\ UNCHANGED <<pen, font, speed, fb, fbText, panel, update_count, buffer,
                   lastOps, printed, lineIn, paints>>
    /\ UNCHANGED <<geomVars, txVars, packVars, valueVars, cellVars>>

\* one character of the payload replaced by another
SendCorrupted(canvases, limit) ==
    /\ wire = <<>>
    /\ paints < limit
    /\ \E px \in canvases :
          LET payload == b64encode(image_to_badge_bytes(px, width, height))
          IN  \E i \in 1..Len(payload) : \E c \in CorruptChars \ {payload[i]} :
                 /\ wire' = TagIMG \o [payload EXCEPT ![i] = c] \o <<"\n">>
                 /\ sent' = [kind |-> "corrupted", prev |-> sent.kind]
    /\ UNCHANGED <<pen, font, speed, fb, fbText, panel, update_count, buffer,
                   lastOps, printed, lineIn, paints>>
    /\ UNCHANGED <<geomVars, txVars, packVars, valueVars, cellVars>>

SendLegacy(limit) ==
    /\ wire = <<>>
    /\ paints < limit
    /\ \E v \in LegacyValues :
          /\ wire' = TagCO2 \o v \o <<"\n">>
          /\ sent' = [kind |-> "legacy", prev |-> sent.kind]
    /\ UNCHANGED <<pen, font, speed, fb, fbText, panel, update_count, buffer,
                   lastOps, printed, lineIn, paints>>
    /\ UNCHANGED <<geomVars, txVars, packVars, valueVars, cellVars>>

SendUnknown(limit) ==
    /\ wire = <<>>
    /\ paints < limit
    /\ \E l \in UnknownLines :
          /\ wire' = l \o <<"\n">>
          /\ sent' = [kind |-> "unknown", prev |-> sent.kind]
    /\ UNCHANGED <<pen, font, speed, fb, fbText, panel, update_count, buffer,
                   lastOps, printed, lineIn, paints>>
    /\ UNCHANGED <<geomVars, txVars, packVars, valueVars, cellVars>>

\* characters whose newline was lost: the next line runs on from them
SendFragment(limit) ==
    /\ wire = <<>>
    /\ paints < limit
    /\ buffer = <<>>
    /\ \E l \in Fragments :
          /\ wire' = l
          /\ sent' = [kind |-> "fragment", prev |-> sent.kind]
    /\ UNCHANGED <<pen, font, speed, fb, fbText, panel, update_count, buffer,
                   lastOps, printed, lineIn, paints>>
    /\ UNCHANGED <<geomVars, txVars, packVars, valueVars, cellVars>>

----------------------------------------------------------------------------
(* Values the variables of the other side take while one side is checked *)

TxIdle ==
    /\ tpc = "idle" /\ ser = "none" /\ link = <<>> /\ flushedUpTo = 0
    /\ sensor_data = <<>> /\ ticks = 0 /\ tickLog = <<>> /\ exitStatus = -1

RxIdle ==
    /\ pen = 0 /\ font = "bitmap8" /\ speed = "FAST"
    /\ fb = Cleared /\ fbText = WaitingText
    /\ panel = [px |-> Cleared, text |-> WaitingText]
    /\ update_count = 0 /\ buffer = <<>> /\ wire = <<>>
    /\ lastOps = <<"clear", "update FAST">>
    /\ printed = <<"Badge ready - listening for images...">>
    /\ lineIn = <<>> /\ sent = [kind |-> "none", prev |-> "none"] /\ paints = 0

PackIdle == pixels = <<>> /\ byte_data = <<>>

ValueIdle ==
    /\ value = <<>> /\ thresholds = <<>> /\ fmt = "raw" /\ suffix = <<>>
    /\ level = "unset" /\ formatted = "unset"

NoCell == [row |-> -1, col |-> -1, level |-> -1]

CellIdle ==
    /\ cols = GridCols /\ rows = GridRows /\ cell = NoCell /\ cellBefore = <<>>
    /\ drawLog = <<>> /\ icon_cache = {}

----------------------------------------------------------------------------
(* The badge fed with valid, damaged, legacy and unknown lines *)

\* the state on entering `while True`: display set up, waiting screen shown
RxInit ==
    /\ width = RxW /\ height = RxH
    /\ RxIdle /\ TxIdle /\ PackIdle /\ ValueIdle /\ CellIdle

RxNext ==
    \/ SendFrame(RxCanvases, MaxRxPaints)
    \/ SendTruncated(RxCanvases, MaxRxPaints)
    \/ SendCorrupted(RxCanvases, MaxRxPaints)
    \/ SendLegacy(MaxRxPaints)
    \/ SendUnknown(MaxRxPaints)
    \/ SendFragment(MaxRxPaints)
    \/ MainLoop

Spec == RxInit /\ [][RxNext]_vars

(* The badge over more than one full-refresh interval *)

RefreshNext ==
    \/ SendFrame(RefreshCanvases, FULL_REFRESH_INTERVAL + 1)
    \/ SendTruncated(RefreshCanvases, FULL_REFRESH_INTERVAL + 1)
    \/ SendLegacy(FULL_REFRESH_INTERVAL + 1)
    \/ MainLoop

SpecRefresh == RxInit /\ [][RefreshNext]_vars

----------------------------------------------------------------------------
(* Properties of the badge *)

\* this step reads the newline that completes a line
CompletesLine == wire # <<>> /\ Head(wire) = "\n"

UpdatesIn(ops) == Cardinality({i \in DOMAIN ops : ops[i] \in {"update FAST", "update NORMAL"}})

\* the encoded frame of a canvas, without its newline
FrameOf(px) == TagIMG \o b64encode(image_to_badge_bytes(px, width, height))

\* the panel that shows a canvas: black where the canvas is 0, white where it is 1
Showing(px) ==
    [px |-> [p \in PanelPixels |-> IF px[p[2] * width + p[1] + 1] = 0 THEN 0 ELSE 15],
     text |-> <<>>]

\* C1: the k-th paint does a full (NORMAL) refresh exactly when k is a multiple
\* of FULL_REFRESH_INTERVAL, every other update is fast, the counter is the
\* number of paints since the last full refresh, and between two lines the
\* update speed is FAST.
C1_FullRefreshEveryNth ==
    /\ speed = "FAST"
    /\ update_count = paints % FULL_REFRESH_INTERVAL
    /\ printed = <<"Image displayed">> =>
          lastOps = <<"clear", IF paints % FULL_REFRESH_INTERVAL = 0
                               THEN "update NORMAL" ELSE "update FAST">>
    /\ printed # <<"Image displayed">> => UpdatesIn(lastOps) = 0 \/ lastOps[2] = "update FAST"

\* the 61st paint has just been made, with the fast update
C1_Witness ==
    /\ paints = FULL_REFRESH_INTERVAL + 1
    /\ printed = <<"Image displayed">>
    /\ lastOps = <<"clear", "update FAST">>
    /\ update_count = 1

\* C2: a completed IMG: line whose payload is a truncated or corrupted valid
\* payload changes nothing on the badge: counter, frame buffer and panel keep
\* their values and no display call is issued.
C2_DamagedFrameChangesNothing ==
    [][ (CompletesLine /\ sent.kind \in {"truncated", "corrupted"}
           /\ StartsWith(Strip(buffer), TagIMG))
        => /\ UNCHANGED <<update_count, panel, fb, fbText, pen, speed, paints>>
           /\ lastOps' = <<>> ]_vars

\* C6 as stated: handling a line writes nothing to standard output, which on
\* the badge is the serial link itself, and issues at most one panel update.
C6_NothingWrittenBack ==
    [][ CompletesLine => (printed' = <<>> /\ UpdatesIn(lastOps') <= 1) ]_vars

\* C6 as amended: the only output of the loop is one status line per completed
\* IMG: line ("Image displayed" after the paint, "Error: ..." after a failed
\* decode, and then no display call); legacy lines, unknown lines and
\* characters inside a line produce no output; a line causes at most one
\* panel update.
C6_OneStatusLinePerImageLine ==
    [][ IF CompletesLine
        THEN /\ UpdatesIn(lastOps') <= 1
             /\ IF StartsWith(Strip(buffer), TagIMG)
                THEN \/ printed' = <<"Image displayed">> /\ UpdatesIn(lastOps') = 1
                     \/ printed' = <<"Error: incorrect padding">> /\ lastOps' = <<>>
                ELSE printed' = <<>>
        ELSE printed' = printed /\ lastOps' = lastOps ]_vars

\* a valid frame has been painted and acknowledged with a status line
C6_Witness ==
    /\ sent.kind = "valid" /\ wire = <<>>
    /\ printed = <<"Image displayed">> /\ UpdatesIn(lastOps) = 1

\* C10: every completed line leaves the buffer empty, and a line that consists
\* of the characters of a well-formed frame is painted exactly as sent,
\* whatever line was completed before it.
C10_FramesIndependent ==
    [][ CompletesLine =>
          /\ buffer' = <<>>
          /\ \A px \in RxCanvases :
                lineIn = FrameOf(px) => panel' = Showing(px) /\ printed' = <<"Image displayed">>
      ]_vars

\* a valid frame with ink on it is on the panel, right after a frame that was damaged
C10_Witness ==
    /\ sent.kind = "valid" /\ sent.prev \in {"truncated", "corrupted"} /\ wire = <<>>
    /\ \E px \in RxCanvases : panel = Showing(px) /\ px[1] = 0
    /\ buffer = <<>>

----------------------------------------------------------------------------
(* get_warning_level and format_value applied to generated values *)

ValueChars == {"0", "1", "2", ".", "-", "R"}

\* values the configuration and the fetch code name, and the special floats
ValueSamples ==
    { <<"E", "R", "R">>, <<"-", "-", "-">>, <<"n", "a", "n">>, <<"i", "n", "f">>,
      <<"-", "i", "n", "f">>, <<"9", "9", "9">>, <<"1", "0", "0", "0">>,
      <<"2", "0", "0", "0">>, <<"2", "5", "0", "0">>, <<"5", "5", ".", "7">>,
      <<"9", "9", "9", ".", "9">>, <<" ", "1", "2">> }

Values == SeqsUpTo(ValueChars, MaxValLen) \cup ValueSamples

\* None, the pair of the co2 cell, and every ordered pair of small thresholds
ThresholdChoices ==
    { <<>>, <<1000, 2000>> }
    \cup { <<w, d>> : w \in 0..MaxThreshold, d \in 0..MaxThreshold }

Formats == {"int", "0f", "1f", "raw"}
Suffixes == {<<>>, <<"%">>}

Unformatted == [raised |-> "no", text |-> <<>>, done |-> FALSE]

ValueInit ==
    /\ value \in Values
    /\ thresholds \in {th \in ThresholdChoices : th = <<>> \/ th[1] <= th[2]}
    /\ fmt \in Formats
    /\ suffix \in Suffixes
    /\ level = -1
    /\ formatted = Unformatted
    /\ width = 1 /\ height = 1
    /\ RxIdle /\ TxIdle /\ PackIdle /\ CellIdle

CallWarningLevel ==
    /\ level = -1
    /\ level' = get_warning_level(value, thresholds)
    /\ UNCHANGED <<value, thresholds, fmt, suffix, formatted>>
    /\ UNCHANGED <<geomVars, rxVars, txVars, packVars, cellVars>>

CallFormatValue ==
    /\ ~formatted.done
    /\ LET r == format_value(value, fmt, suffix)
       IN  formatted' = [raised |-> r.raised, text |-> r.text, done |-> TRUE]
    /\ UNCHANGED <<value, thresholds, fmt, suffix, level>>
    /\ UNCHANGED <<geomVars, rxVars, txVars, packVars, cellVars>>

ValueNext == CallWarningLevel \/ CallFormatValue

SpecValue == ValueInit /\ [][ValueNext]_vars

\* the value as a number: its sign, mantissa and decimal scale
IsNumber(v) == ParseFloat(v).kind \in {"num", "inf"}

\* v < t and v >= t, for a value that is a number, by cross-multiplication
Below(v, t) ==
    LET val == ParseFloat(v)
    IN  IF val.kind = "inf" THEN val.neg
        ELSE IF val.neg THEN val.m > 0 \/ t > 0   \* -m/10^s < t for t >= 0
        ELSE val.m < t * (10 ^ val.s)

\* C4: with thresholds [w, d], w <= d, a value that is a number gets DANGER
\* iff v >= d, WARNING iff w <= v < d, NONE iff v < w; absent thresholds and
\* a value that is no number (unparsable, or not-a-number) get NONE; a value
\* on a boundary gets the higher tier.
C4_ThresholdTiers ==
    level # -1 =>
       /\ level \in {0, 1, 2}
       /\ thresholds = <<>> => level = 0
       /\ ~IsNumber(value) => level = 0
       /\ (thresholds # <<>> /\ IsNumber(value)) =>
             /\ level = 2 <=> ~Below(value, thresholds[2])
             /\ level = 1 <=> (~Below(value, thresholds[1]) /\ Below(value, thresholds[2]))
             /\ level = 0 <=> Below(value, thresholds[1])
       /\ (value = <<"1", "0", "0", "0">> /\ thresholds = <<1000, 2000>>) => level = 1
       /\ (value = <<"2", "0", "0", "0">> /\ thresholds = <<1000, 2000>>) => level = 2

\* a value on the warning boundary has been evaluated
C4_Witness ==
    /\ value = <<"1", "0", "0", "0">> /\ thresholds = <<1000, 2000>> /\ level = 1

\* C8: format_value never raises; for the raw kind, and for a numeric kind
\* when the value cannot be parsed and formatted as a number, the result is
\* the value followed by the suffix; such a value has tier NONE.
C8_FormatNeverRaises ==
    formatted.done =>
       /\ formatted.raised = "no"
       /\ fmt = "raw" => formatted.text = value \o suffix
       /\ (fmt # "raw" /\ ParseFloat(value).kind = "fail") =>
             /\ formatted.text = value \o suffix
             /\ level \in {-1, 0}

----------------------------------------------------------------------------
(* A canvas packed by the host and painted by the badge *)

PackInit ==
    /\ width \in 1..MaxW
    /\ height \in 1..MaxH
    /\ pixels \in CanvasesWithInk(width, height, MaxInk)
    /\ byte_data = <<>>
    /\ RxIdle /\ ValueIdle /\ CellIdle
    /\ tpc = "pack" /\ ser = "none" /\ link = <<>> /\ flushedUpTo = 0
    /\ sensor_data = <<>> /\ ticks = 0 /\ tickLog = <<>> /\ exitStatus = -1

\* img_bytes = image_to_badge_bytes(img)
Pack ==
    /\ tpc = "pack"
    /\ byte_data' = image_to_badge_bytes(pixels, width, height)
    /\ tpc' = "packed"
    /\ UNCHANGED <<pixels, ser, link, flushedUpTo, sensor_data, ticks, tickLog, exitStatus>>
    /\ UNCHANGED <<geomVars, rxVars, valueVars, cellVars>>

\* display_image(img_bytes) on the bytes as packed
Paint ==
    /\ tpc = "packed"
    /\ display_image(byte_data)
    /\ tpc' = "painted"
    /\ UNCHANGED <<buffer, wire, printed, lineIn, sent>>
    /\ UNCHANGED <<ser, link, flushedUpTo, sensor_data, ticks, tickLog, exitStatus>>
    /\ UNCHANGED <<geomVars, packVars, valueVars, cellVars>>

PackNext == Pack \/ Paint

SpecPack == PackInit /\ [][PackNext]_vars

\* bit b (7 = most significant) of a byte
BitOf(byte, b) == (byte \div Pow2(b)) % 2

\* C3: the packed form has one byte per group of 8 columns and row, bit 7 the
\* leftmost column of the group, rows in row-major order, a bit set exactly
\* for a white (1) canvas pixel and clear past the width; painting it shows
\* pixel (x, y) black exactly when canvas pixel (x, y) is 0 and white exactly
\* when it is 1.
C3_PackPaintRoundTrip ==
    /\ tpc \in {"packed", "painted"} =>
          /\ Len(byte_data) = height * Groups(width)
          /\ \A y \in 0..(height - 1) : \A x \in 0..(8 * Groups(width) - 1) :
                BitOf(byte_data[y * Groups(width) + (x \div 8) + 1], 7 - (x % 8))
                   = IF x < width THEN pixels[y * width + x + 1] ELSE 0
    /\ tpc = "painted" =>
          /\ \A x \in 0..(width - 1) : \A y \in 0..(height - 1) :
                /\ panel.px[<<x, y>>] = 0 <=> pixels[y * width + x + 1] = 0
                /\ panel.px[<<x, y>>] = 15 <=> pixels[y * width + x + 1] = 1
          /\ panel.text = <<>>

\* a canvas wider than one byte group and not a multiple of 8 wide, with a black
\* pixel in the partial group of its last row, has been packed and painted
C3_Witness ==
    /\ tpc = "painted"
    /\ width > 8 /\ width % 8 # 0 /\ height > 1
    /\ pixels[width * height] = 0
    /\ panel.px[<<width - 1, height - 1>>] = 0
    /\ panel.px[<<0, 0>>] = 15

----------------------------------------------------------------------------
(* draw_cell on small canvases and grids *)

CellValues == {<<"9", "9", "9">>, <<"1", "0", "0", "0">>, <<"2", "5", "0", "0">>}

CellInit ==
    /\ cols \in 1..MaxGrid
    /\ rows \in 1..MaxGrid
    /\ width \in cols..MaxCellW
    /\ height \in rows..MaxCellH
    /\ pixels = [i \in 1..(width * height) |-> 1]
    /\ byte_data = <<>>
    /\ cell = NoCell /\ cellBefore = <<>> /\ drawLog = <<>> /\ icon_cache = {}
    /\ RxIdle /\ TxIdle /\ ValueIdle

\* one call of draw_cell, for a cell of the grid that shows co2 as the
\* configured co2 cell does
DrawOneCell ==
    /\ ticks < MaxDraws
    /\ \E r \in 0..(rows - 1), c \in 0..(cols - 1), v \in CellValues, assetsOk \in BOOLEAN :
          LET cell_config == [GRID_CONFIG[1] EXCEPT !.row = r, !.col = c]
              res == draw_cell(pixels, width, height, cell_config, [k \in {"co2"} |-> v],
                               width \div cols, height \div rows, "default", icon_cache,
                               assetsOk)
          IN  /\ pixels' = res.img
              /\ cellBefore' = pixels
              /\ cell' = [row |-> r, col |-> c, level |-> res.level]
              /\ drawLog' = res.calls
              /\ icon_cache' = res.cache
    /\ ticks' = ticks + 1
    /\ UNCHANGED <<cols, rows, byte_data, tpc, ser, link, flushedUpTo, sensor_data,
                   tickLog, exitStatus>>
    /\ UNCHANGED <<geomVars, rxVars, valueVars>>

CellNext == DrawOneCell

SpecCell == CellInit /\ [][CellNext]_vars

\* the pixels of the cell at (row, col): cell_width columns from col * cell_width,
\* cell_height rows from row * cell_height
InCell(i, r, c) ==
    LET x == (i - 1) % width
        y == (i - 1) \div width
        cw == width \div cols
        ch == height \div rows
    IN  /\ c * cw <= x /\ x <= c * cw + cw - 1
        /\ r * ch <= y /\ y <= r * ch + ch - 1

\* C9: drawing a cell in danger blackens exactly the pixels of that cell and
\* changes no pixel of a neighbouring cell.
C9_DangerFillStaysInCell ==
    cell.level = 2 =>
       \A i \in 1..(width * height) :
          /\ InCell(i, cell.row, cell.col) => pixels[i] = 0
          /\ ~InCell(i, cell.row, cell.col) => pixels[i] = cellBefore[i]

----------------------------------------------------------------------------
(* The host: badge_co2.py from the opening of the port on *)

FramePartsPayloadFirst(img_bytes) == <<b64encode(img_bytes), TagIMG, <<"\n">>>>

\* the three ser.write() calls of send_image_to_badge, in order
FrameParts(img_bytes) == <<TagIMG, b64encode(img_bytes), <<"\n">>>>

ERR == <<"E", "R", "R">>
Co2Samples == {ERR, <<"1", "0", "0", "0">>, <<"2", "5", "0", "0">>, <<"i", "n", "f">>}
CoSamples == {ERR, <<"4", "0">>}

\* what fetch_all_sensors can return: a value or "ERR" per sensor, the clock
Snapshots ==
    { [k \in {"co2", "co", "temperature", "pm25", "humidity", "outside_temp", "time", "date"} |->
         CASE k = "co2" -> a
           [] k = "co" -> b
           [] k = "time" -> <<"1", "2", ":", "0", "0">>
           [] k = "date" -> <<"0", "6", "/", "1", "1">>
           [] OTHER -> ERR] : a \in Co2Samples, b \in CoSamples }

TxInit ==
    /\ width = TxW /\ height = TxH
    /\ cols = GridCols /\ rows = GridRows
    /\ cell = NoCell /\ cellBefore = <<>> /\ drawLog = <<>> /\ icon_cache = {}
    /\ pixels = <<>> /\ byte_data = <<>>
    /\ tpc = "open" /\ ser = "none" /\ link = <<>> /\ flushedUpTo = 0
    /\ sensor_data = <<>> /\ ticks = 0 /\ tickLog = <<>> /\ exitStatus = -1
    /\ RxIdle /\ ValueIdle

TxFrame == <<geomVars, rxVars, valueVars, cols, rows, cell, cellBefore>>

\* an exception nothing catches: traceback, exit status 1, the port left as it is
Crash ==
    /\ tpc' = "crashed"
    /\ exitStatus' = 1

\* ser = serial.Serial(...), or exit(1) when that raises
OpenPort ==
    /\ tpc = "open"
    /\ \/ ser' = "open" /\ tpc' = "fetch" /\ exitStatus' = exitStatus
       \/ ser' = ser /\ tpc' = "exited" /\ exitStatus' = 1
    /\ UNCHANGED <<link, flushedUpTo, sensor_data, ticks, tickLog, pixels, byte_data,
                   drawLog, icon_cache>>
    /\ UNCHANGED TxFrame

\* sensor_data = fetch_all_sensors()
Fetch ==
    /\ tpc = "fetch"
    /\ ticks < MaxTicks
    /\ sensor_data' \in Snapshots
    /\ ticks' = ticks + 1
    /\ tpc' = "render"
    /\ UNCHANGED <<ser, link, flushedUpTo, exitStatus, tickLog, pixels, byte_data, drawLog,
                   icon_cache>>
    /\ UNCHANGED TxFrame

\* img = generate_display_image(sensor_data)
Render ==
    /\ tpc = "render"
    /\ \E fontOk \in BOOLEAN, assetsOk \in BOOLEAN :
          \E r \in {generate_display_image(sensor_data, width, height, cols, rows,
                                           icon_cache, fontOk, assetsOk)} :
              /\ drawLog' = r.calls
              /\ icon_cache' = r.cache
              /\ IF r.raised = "no"
                 THEN /\ pixels' = r.img
                      /\ tpc' = "send_tag"
                      /\ exitStatus' = exitStatus
                 ELSE /\ Crash
                      /\ UNCHANGED pixels
    /\ UNCHANGED <<ser, link, flushedUpTo, sensor_data, ticks, tickLog, byte_data>>
    /\ UNCHANGED TxFrame

\* ser.write(part): the characters go onto the link, or the call raises; log is
\* the record of the send_image_to_badge calls so far, this one last
SerWrite(part, next, log) ==
    \/ /\ link' = link \o part
       /\ tickLog' = [log EXCEPT ![Len(log)].written = @ \o part]
       /\ tpc' = next
       /\ exitStatus' = exitStatus
    \/ /\ Crash
       /\ link' = link
       /\ tickLog' = log

\* send_image_to_badge up to ser.write(b"IMG:")
SendTag ==
    /\ tpc = "send_tag"
    /\ byte_data' = image_to_badge_bytes(pixels, width, height)
    /\ SerWrite(FrameParts(byte_data')[1], "send_payload",
                Append(tickLog, [img |-> pixels, written |-> <<>>, flushed |-> FALSE]))
    /\ UNCHANGED <<ser, flushedUpTo, sensor_data, ticks, pixels, drawLog, icon_cache>>
    /\ UNCHANGED TxFrame

\* ser.write(encoded.encode("ascii"))
SendPayload ==
    /\ tpc = "send_payload"
    /\ SerWrite(FrameParts(byte_data)[2], "send_nl", tickLog)
    /\ UNCHANGED <<ser, flushedUpTo, sensor_data, ticks, pixels, byte_data, drawLog, icon_cache>>
    /\ UNCHANGED TxFrame

\* ser.write(b"\n")
SendNewline ==
    /\ tpc = "send_nl"
    /\ SerWrite(FrameParts(byte_data)[3], "flush", tickLog)
    /\ UNCHANGED <<ser, flushedUpTo, sensor_data, ticks, pixels, byte_data, drawLog, icon_cache>>
    /\ UNCHANGED TxFrame

\* ser.flush()
FlushPort ==
    /\ tpc = "flush"
    /\ \/ /\ flushedUpTo' = Len(link)
          /\ tickLog' = [tickLog EXCEPT ![Len(tickLog)].flushed = TRUE]
          /\ tpc' = "wait"
          /\ exitStatus' = exitStatus
       \/ /\ Crash
          /\ UNCHANGED <<flushedUpTo, tickLog>>
    /\ UNCHANGED <<ser, link, sensor_data, ticks, pixels, byte_data, drawLog, icon_cache>>
    /\ UNCHANGED TxFrame

\* wait_for_next_minute() returns
Wait ==
    /\ tpc = "wait"
    /\ tpc' = "fetch"
    /\ UNCHANGED <<ser, link, flushedUpTo, sensor_data, ticks, tickLog, exitStatus,
                   pixels, byte_data, drawLog, icon_cache>>
    /\ UNCHANGED TxFrame

InLoop == tpc \in {"fetch", "render", "send_tag", "send_payload", "send_nl", "flush", "wait"}

\* KeyboardInterrupt anywhere inside the try block: ser.close(), and the script ends
Interrupt ==
    /\ InLoop
    /\ ser' = "closed"
    /\ tpc' = "exited"
    /\ exitStatus' = 0
    /\ UNCHANGED <<link, flushedUpTo, sensor_data, ticks, tickLog, pixels, byte_data,
                   drawLog, icon_cache>>
    /\ UNCHANGED TxFrame

TxNext ==
    \/ OpenPort
    \/ Fetch
    \/ Render
    \/ SendTag
    \/ SendPayload
    \/ SendNewline
    \/ FlushPort
    \/ Wait
    \/ Interrupt

SpecTx == TxInit /\ [][TxNext]_vars

----------------------------------------------------------------------------
(* Properties of the host *)

\* the frame of a logged call: tag, base64 of the packed image, one newline
TickFrame(e) == TagIMG \o b64encode(image_to_badge_bytes(e.img, width, height)) \o <<"\n">>

RECURSIVE Written(_, _)
Written(log, n) == IF n = 0 THEN <<>> ELSE Written(log, n - 1) \o log[n].written

RECURSIVE FlushedLen(_, _)
FlushedLen(log, n) ==
    IF n = 0 THEN 0
    ELSE FlushedLen(log, n - 1) + (IF log[n].flushed THEN Len(log[n].written) ELSE 0)

Sending == tpc \in {"send_payload", "send_nl", "flush"}

\* C5: once the port is open nothing but an interrupt ends the process, and
\* that with the port closed and status 0; a failed open ends it with status 1
\* before anything is written.
C5_OnlyOpenFailureIsFatal ==
    /\ tpc # "crashed"
    /\ exitStatus = 1 => (ser = "none" /\ link = <<>> /\ ticks = 0)
    /\ exitStatus = 0 => ser = "closed"

====
